---- MODULE Spec2Model ----
(***************************************************************************)
(* SettingsManager (libdisplaydevice, windows/settings_manager_general.cpp) *)
(* resetPersistence, exportCurrentSettings, exportRestoreProfile and        *)
(* restoreFromProfile, together with the collaborators they talk to: the    *)
(* display device API, the persistence record, the audio context and the   *)
(* JSON codec.                                                              *)
(***************************************************************************)
EXTENDS Integers, Sequences, FiniteSets, TLC

(* ------------------------------ bounds --------------------------------- *)
\* display modes are the numbers 1..NumModes
NumModes == 2

Devices == {"d1", "d2"}
Modes == 1..NumModes
HdrValues == {"On", "Off"}
NoDevice == ""

(* ---------------------------- topologies ------------------------------- *)
\* ActiveTopology is a vector of groups of device ids; the groups are sets here.
TopoInvalid == << >>
TopoSingle == << {"d1"} >>
TopoExtended == << {"d1"}, {"d2"} >>
TopoExtendedSwapped == << {"d2"}, {"d1"} >>
ValidTopologies == {TopoSingle, TopoExtended, TopoExtendedSwapped}
Topologies == ValidTopologies \cup {TopoInvalid}

Groups(t) == {t[i] : i \in 1..Len(t)}

\* win_utils::flattenTopology: the set of the device ids of all groups
flattenTopology(t) == UNION Groups(t)

\* WinDisplayDeviceInterface::isTopologyValid: at least one group, no empty group,
\* no device in two groups
isTopologyValid(t) ==
    /\ Len(t) > 0
    /\ \A i \in 1..Len(t) : t[i] # {}
    /\ \A i, j \in 1..Len(t) : i # j => t[i] \cap t[j] = {}

\* WinDisplayDeviceInterface::isTopologyTheSame: equal up to the order of the groups
isTopologyTheSame(a, b) == Len(a) = Len(b) /\ Groups(a) = Groups(b)

(* ------------------------------- maps ---------------------------------- *)
EmptyMap == << >>
IsEmptyMap(m) == DOMAIN m = {}
MapsOver(keys, vals) == [keys -> vals]
\* the maps of a hand-built profile: empty, over one device, over both devices
ModeMaps == {EmptyMap} \cup MapsOver({"d1"}, {1}) \cup MapsOver(Devices, {1})
HdrMaps == {EmptyMap} \cup MapsOver({"d1"}, {"On"}) \cup MapsOver(Devices, {"On"})
\* std::map operator== / operator!=
SameMap(a, b) == DOMAIN a = DOMAIN b /\ \A d \in DOMAIN a : a[d] = b[d]
Override(live, m) == [d \in DOMAIN live |-> IF d \in DOMAIN m THEN m[d] ELSE live[d]]

(* ----------------------------- the codec ------------------------------- *)
\* SingleDisplayConfigState {initial {topology, primary devices},
\*                           modified {topology, modes, hdr states, primary device}}
State(it, ip, mt, mm, mh, mp) ==
    [m_initial |-> [m_topology |-> it, m_primary_devices |-> ip],
     m_modified |-> [m_topology |-> mt, m_original_modes |-> mm,
                     m_original_hdr_states |-> mh, m_original_primary_device |-> mp]]

\* toJson(SingleDisplayConfigState): the text is a tagged flat list of the fields
toJson(s) ==
    << "sdcs", s.m_initial.m_topology, s.m_initial.m_primary_devices,
       s.m_modified.m_topology, s.m_modified.m_original_modes,
       s.m_modified.m_original_hdr_states, s.m_modified.m_original_primary_device >>

\* fromJson(text, snapshot, &error): the success flag
fromJsonOk(b) == Len(b) = 7 /\ b[1] = "sdcs"
\* fromJson(text, snapshot, &error): the decoded value
fromJson(b) == State(b[2], b[3], b[4], b[5], b[6], b[7])

\* buffers that do not decode: empty, truncated, wrong tag
Garbage == { << >>, << "sdcs" >>, << "junk", 0, 0, 0, 0, 0, 0 >> }

\* the profiles a caller can build by hand (exportRestoreProfile adds the captured ones)
Profiles ==
    { State(it, {}, mt, mm, mh, mp) :
        it \in Topologies, mt \in Topologies \ {TopoExtendedSwapped}, mm \in ModeMaps, mh \in HdrMaps,
        mp \in {NoDevice, "d2"} }

Buffers == { toJson(p) : p \in Profiles } \cup Garbage

(* ------------------------------ results -------------------------------- *)
RevertResult ==
    { "Ok", "ApiTemporarilyUnavailable", "TopologyIsInvalid", "SwitchingTopologyFailed",
      "RevertingPrimaryDeviceFailed", "RevertingHdrStatesFailed",
      "RevertingDisplayModesFailed", "PersistenceSaveFailed" }
None == "None"

Faults == {"none", "api", "topology", "modes", "hdr"}

VARIABLES
    \* the display device (WinDisplayDeviceInterface)
    fault,                    \* what the device API currently fails at
    liveTopology,             \* the active topology
    liveModes,                \* display mode of every device
    liveHdr,                  \* HDR state of every device
    livePrimary,              \* the primary device
    forceStrictModes,         \* WinDisplayDevice's process-wide strict flag
    \* PersistentState and AudioContextInterface
    persisted,                \* a "current settings" record is persisted
    captured,                 \* the audio context is captured
    \* the caller
    data,                     \* the profile buffer the caller holds
    fromExport,               \* data was returned by exportRestoreProfile
    \* restoreFromProfile
    pc,                       \* position inside restoreFromProfile
    current_topology,         \* local: topology read at entry
    system_settings_touched,  \* local: flag read by the scope-exit guard
    \* observations of the last call
    result,                   \* what the last call returned
    exported,                 \* what the last exportCurrentSettings returned: << >> or << snapshot >>
    prev,                     \* what the call before the running restore returned
    calls                     \* device and collaborator calls of the last call

devVars == << fault, liveTopology, liveModes, liveHdr, livePrimary >>
persVars == << persisted, captured >>
callerVars == << data, fromExport >>
localVars == << pc, current_topology, system_settings_touched >>
obsVars == << result, exported, prev, calls >>
vars == << fault, liveTopology, liveModes, liveHdr, livePrimary, forceStrictModes,
           persisted, captured, data, fromExport,
           pc, current_topology, system_settings_touched, result, exported, prev, calls >>

(* ------------------------- device API: reads --------------------------- *)
isApiAccessAvailable == fault # "api"
getCurrentTopology == IF fault = "topology" THEN TopoInvalid ELSE liveTopology
\* an empty map is the API's way to report that the query failed
getCurrentDisplayModes(ids) ==
    IF fault = "modes" THEN EmptyMap ELSE [d \in ids |-> liveModes[d]]
getCurrentHdrStates(ids) ==
    IF fault = "hdr" THEN EmptyMap ELSE [d \in ids |-> liveHdr[d]]
isPrimary(id) == id = livePrimary
\* win_utils::getPrimaryDevice: the primary device among those of the topology
getPrimaryDevice(t) ==
    IF \E d \in flattenTopology(t) : isPrimary(d)
    THEN CHOOSE d \in flattenTopology(t) : isPrimary(d)
    ELSE NoDevice

(* ------------------------- device API: writes -------------------------- *)
\* A write that reports success has taken effect; one that reports failure changed
\* nothing. A request naming a device that is not active cannot succeed.
Outcomes(applicable) == IF applicable THEN BOOLEAN ELSE {FALSE}
Active == flattenTopology(liveTopology)

\* the primary device is always an active one: switching it off moves the primary
setTopology(t, ok) ==
    /\ liveTopology' = IF ok THEN t ELSE liveTopology
    /\ IF ok /\ livePrimary \notin flattenTopology(t)
       THEN livePrimary' \in flattenTopology(t)
       ELSE livePrimary' = livePrimary
setHdrStates(m, ok) == liveHdr' = IF ok THEN Override(liveHdr, m) ELSE liveHdr
setDisplayModes(m, ok) == liveModes' = IF ok THEN Override(liveModes, m) ELSE liveModes
setAsPrimary(id, ok) == livePrimary' = IF ok THEN id ELSE livePrimary

\* one entry of the call log: the call, the restore step issuing it, its outcome and
\* the strict flag at that moment
Call(op, step, ok) ==
    [op |-> op, step |-> step, ok |-> ok, strict |-> forceStrictModes, persisted |-> persisted]
WriteOps == {"setTopology", "setHdrStates", "setDisplayModes", "setAsPrimary"}
Writes(log) == SelectSeq(log, LAMBDA c : c.op \in WriteOps)
Blanks(log) == SelectSeq(log, LAMBDA c : c.op = "blankHdrStates")

(* ------------------------------- Init ---------------------------------- *)
\* the caller starts out holding a hand-built profile or garbage
Init ==
    /\ fault = "none"
    /\ liveTopology = TopoSingle
    /\ liveModes = [d \in Devices |-> 1]
    /\ liveHdr = [d \in Devices |-> "Off"]
    /\ livePrimary = "d1"
    /\ forceStrictModes = FALSE
    /\ persisted = FALSE
    /\ captured = FALSE
    /\ data \in Buffers
    /\ fromExport = FALSE
    /\ pc = "Idle"
    /\ current_topology = TopoInvalid
    /\ system_settings_touched = FALSE
    /\ result = None
    /\ exported = << >>
    /\ prev = None
    /\ calls = << >>

(* ------------------------- restoreFromProfile -------------------------- *)
snapshot == fromJson(data)
modified == snapshot.m_modified
initial == snapshot.m_initial

\* return from inside the guarded region: the value is fixed, the scope-exit runs next
Return(r) == result' = r /\ pc' = "Exit"

\* slip: the outcome of the device write is not looked at
AfterWriteIgnoringFailure(ok, next, failure) == pc' = next /\ UNCHANGED result

\* the way on after a device write: on to the next step, or out with the step's failure
AfterWrite(ok, next, failure) ==
    IF ok THEN pc' = next /\ UNCHANGED result ELSE Return(failure)

\* slip: the buffer is decoded before the device is asked anything
PreconditionFailureDecodeFirst ==
    IF ~fromJsonOk(data) THEN "PersistenceSaveFailed"
    ELSE IF ~isApiAccessAvailable THEN "ApiTemporarilyUnavailable"
    ELSE IF ~isTopologyValid(getCurrentTopology) THEN "TopologyIsInvalid"
    ELSE None

\* slip: a buffer that does not decode is reported like an invalid topology
PreconditionFailureNoDecodeCheck ==
    IF ~isApiAccessAvailable THEN "ApiTemporarilyUnavailable"
    ELSE IF ~isTopologyValid(getCurrentTopology) THEN "TopologyIsInvalid"
    ELSE IF ~fromJsonOk(data) THEN "TopologyIsInvalid"
    ELSE None

\* lines 113-130: the precondition that fails first, None when all three hold
PreconditionFailure ==
    IF ~isApiAccessAvailable THEN "ApiTemporarilyUnavailable"
    ELSE IF ~isTopologyValid(getCurrentTopology) THEN "TopologyIsInvalid"
    ELSE IF ~fromJsonOk(data) THEN "PersistenceSaveFailed"
    ELSE None

\* slip: the modified topology is never found to differ from the one read at entry
NeedsModifiedTopologyNever(current, target) == FALSE

\* line 145: the modified topology is applied when it is not the one read at entry
NeedsModifiedTopology(current, target) == ~isTopologyTheSame(current, target)
\* slip: the HDR states are written without looking at the live ones
HdrStatesDifferAlways(current_states, target) == TRUE

\* line 156
HdrStatesDiffer(current_states, target) == ~SameMap(current_states, target)
\* slip: the display modes are written without looking at the live ones
ModesDifferAlways(current_modes, target) == TRUE

\* line 168
ModesDiffer(current_modes, target) == ~SameMap(current_modes, target)
\* slip: the primary device is never found to differ
PrimaryNeverDiffers(current_primary, target) == FALSE

\* line 182
PrimaryDiffers(current_primary, target) == current_primary # target
\* slip: the initial topology is compared with the topology read at entry
NeedsInitialTopologyVsEntry(modified_topology, target) ==
    ~isTopologyTheSame(current_topology, target)

\* line 197: the initial topology is applied when it is not the modified one
NeedsInitialTopology(modified_topology, target) == ~isTopologyTheSame(modified_topology, target)

\* lines 112-137: the three preconditions, then the guard is armed
RestoreBegin ==
    /\ pc = "Idle"
    /\ prev' = result
    /\ calls' = << >>
    /\ exported' = << >>
    /\ UNCHANGED << devVars, forceStrictModes, persVars, callerVars >>
    /\ IF PreconditionFailure # None
       THEN /\ result' = PreconditionFailure
            /\ UNCHANGED localVars
       ELSE /\ result' = None
            /\ current_topology' = getCurrentTopology
            /\ system_settings_touched' = FALSE
            /\ pc' = "Step1"

\* slip: both topologies of the profile are validated before the first step
AnyProfileTopologyInvalid ==
    ~isTopologyValid(modified.m_topology) \/ ~isTopologyValid(initial.m_topology)

\* line 140: the validity check that opens step 1
ModifiedTopologyInvalid == ~isTopologyValid(modified.m_topology)

\* lines 139-151: 1) switch to the modified topology
RestoreStep1 ==
    /\ pc = "Step1"
    /\ UNCHANGED << fault, liveModes, liveHdr, forceStrictModes, persVars, callerVars,
                    current_topology, prev, exported >>
    /\ IF ModifiedTopologyInvalid
       THEN /\ Return("TopologyIsInvalid")
            /\ UNCHANGED << liveTopology, livePrimary, system_settings_touched, calls >>
       ELSE IF NeedsModifiedTopology(current_topology, modified.m_topology)
       THEN /\ system_settings_touched' = TRUE
            /\ \E ok \in BOOLEAN :
                 /\ setTopology(modified.m_topology, ok)
                 /\ calls' = Append(calls, Call("setTopology", 1, ok))
                 /\ AfterWrite(ok, "Step2", "SwitchingTopologyFailed")
       ELSE /\ pc' = "Step2"
            /\ UNCHANGED << liveTopology, livePrimary, system_settings_touched, calls,
                            result >>

\* lines 153-163: 2) restore the HDR states if provided
RestoreStep2 ==
    /\ pc = "Step2"
    /\ UNCHANGED << fault, liveTopology, liveModes, livePrimary, forceStrictModes,
                    persVars, callerVars, current_topology, prev, exported >>
    /\ IF IsEmptyMap(modified.m_original_hdr_states)
       THEN /\ pc' = "Step3"
            /\ UNCHANGED << liveHdr, system_settings_touched, calls, result >>
       ELSE LET current_states == getCurrentHdrStates(flattenTopology(modified.m_topology))
                read == Call("getCurrentHdrStates", 2, TRUE)
            IN IF HdrStatesDiffer(current_states, modified.m_original_hdr_states)
               THEN /\ system_settings_touched' = TRUE
                    /\ \E ok \in Outcomes(DOMAIN modified.m_original_hdr_states \subseteq Active) :
                         /\ setHdrStates(modified.m_original_hdr_states, ok)
                         /\ calls' = calls \o << read, Call("setHdrStates", 2, ok) >>
                         /\ AfterWrite(ok, "Step3", "RevertingHdrStatesFailed")
               ELSE /\ pc' = "Step3"
                    /\ calls' = Append(calls, read)
                    /\ UNCHANGED << liveHdr, system_settings_touched, result >>

\* lines 165-172: 3) restore the display modes if provided; strict mode is switched on
\* and strict_reset armed before the write
RestoreStep3 ==
    /\ pc = "Step3"
    /\ UNCHANGED << devVars, persVars, callerVars, current_topology, prev, exported, result >>
    /\ IF IsEmptyMap(modified.m_original_modes)
       THEN /\ pc' = "Step4"
            /\ UNCHANGED << forceStrictModes, system_settings_touched, calls >>
       ELSE LET current_modes == getCurrentDisplayModes(flattenTopology(modified.m_topology))
            IN /\ calls' = Append(calls, Call("getCurrentDisplayModes", 3, TRUE))
               /\ IF ModesDiffer(current_modes, modified.m_original_modes)
                  THEN /\ system_settings_touched' = TRUE
                       /\ forceStrictModes' = TRUE
                       /\ pc' = "SetModes"
                  ELSE /\ pc' = "Step4"
                       /\ UNCHANGED << forceStrictModes, system_settings_touched >>

\* slip: no strict_reset, the flag stays as the step set it
strict_reset_missing == forceStrictModes

\* what strict_reset (line 171) leaves in the flag when its scope ends
strict_reset == FALSE

\* lines 173-177: the strict write, then strict_reset runs on either way out
RestoreSetModes ==
    /\ pc = "SetModes"
    /\ UNCHANGED << fault, liveTopology, liveHdr, livePrimary, persVars, callerVars,
                    current_topology, system_settings_touched, prev, exported >>
    /\ \E ok \in Outcomes(DOMAIN modified.m_original_modes \subseteq Active) :
         /\ setDisplayModes(modified.m_original_modes, ok)
         /\ calls' = Append(calls, Call("setDisplayModes", 3, ok))
         /\ forceStrictModes' = strict_reset
         /\ AfterWrite(ok, "Step4", "RevertingDisplayModesFailed")

\* lines 179-189: 4) restore the primary device if provided
RestoreStep4 ==
    /\ pc = "Step4"
    /\ UNCHANGED << fault, liveTopology, liveModes, liveHdr, forceStrictModes, persVars,
                    callerVars, current_topology, prev, exported >>
    /\ IF modified.m_original_primary_device = NoDevice
       THEN /\ pc' = "Step5"
            /\ UNCHANGED << livePrimary, system_settings_touched, calls, result >>
       ELSE LET current_primary == getPrimaryDevice(modified.m_topology)
                read == Call("getPrimaryDevice", 4, TRUE)
            IN IF PrimaryDiffers(current_primary, modified.m_original_primary_device)
               THEN /\ system_settings_touched' = TRUE
                    /\ \E ok \in Outcomes(modified.m_original_primary_device \in Active) :
                         /\ setAsPrimary(modified.m_original_primary_device, ok)
                         /\ calls' = calls \o << read, Call("setAsPrimary", 4, ok) >>
                         /\ AfterWrite(ok, "Step5", "RevertingPrimaryDeviceFailed")
               ELSE /\ pc' = "Step5"
                    /\ calls' = Append(calls, read)
                    /\ UNCHANGED << livePrimary, system_settings_touched, result >>

\* slip: the outcome of the last topology switch is not looked at
Step5ResultAlwaysOk(ok) == "Ok"

\* lines 198-205: what the call returns after the write of step 5
Step5Result(ok) == IF ok THEN "Ok" ELSE "SwitchingTopologyFailed"

\* lines 191-205: 5) switch to the initial topology
RestoreStep5 ==
    /\ pc = "Step5"
    /\ UNCHANGED << fault, liveModes, liveHdr, forceStrictModes, persVars, callerVars,
                    current_topology, prev, exported >>
    /\ IF ~isTopologyValid(initial.m_topology)
       THEN /\ Return("TopologyIsInvalid")
            /\ UNCHANGED << liveTopology, livePrimary, system_settings_touched, calls >>
       ELSE IF NeedsInitialTopology(modified.m_topology, initial.m_topology)
       THEN /\ system_settings_touched' = TRUE
            /\ \E ok \in BOOLEAN :
                 /\ setTopology(initial.m_topology, ok)
                 /\ calls' = Append(calls, Call("setTopology", 5, ok))
                 /\ Return(Step5Result(ok))
       ELSE /\ Return("Ok")
            /\ UNCHANGED << liveTopology, livePrimary, system_settings_touched, calls >>

\* slip: the blanking is done at the end of the function body, not by a scope-exit
hdr_blank_only_on_success ==
    IF system_settings_touched /\ result = "Ok"
    THEN << Call("blankHdrStates", 6, TRUE) >> ELSE << >>

\* lines 133-137: what the scope-exit guard calls when the function is left
hdr_blank_always_executed_guard ==
    IF system_settings_touched THEN << Call("blankHdrStates", 6, TRUE) >> ELSE << >>

\* the scope-exit runs, the locals go out of scope, the caller has the result
RestoreExit ==
    /\ pc = "Exit"
    /\ calls' = calls \o hdr_blank_always_executed_guard
    /\ pc' = "Idle"
    /\ current_topology' = TopoInvalid
    /\ system_settings_touched' = FALSE
    /\ UNCHANGED << devVars, forceStrictModes, persVars, callerVars, result, prev, exported >>

(* ------------------------- exportRestoreProfile ------------------------ *)
Unavailable == "Unavailable"
Exported == "Exported"

\* slip: every device of the topology is taken as primary
primary_devices_all(device_ids) == device_ids

\* lines 93-99: the devices of the topology the API reports as primary
primary_devices(device_ids) == {id \in device_ids : isPrimary(id)}

\* slip: the HDR states are read for every known device, not for the flattened topology
ExportedStateAllDevices(topology) ==
    LET device_ids == flattenTopology(topology)
    IN State(topology, primary_devices(device_ids),
             topology, getCurrentDisplayModes(device_ids),
             getCurrentHdrStates(Devices), getPrimaryDevice(topology))

\* lines 103-106: the snapshot built from the values read
ExportedState(topology) ==
    LET device_ids == flattenTopology(topology)
    IN State(topology, primary_devices(device_ids),
             topology, getCurrentDisplayModes(device_ids),
             getCurrentHdrStates(device_ids), getPrimaryDevice(topology))

\* slip: an empty HDR read is let through, as exportCurrentSettings does
HdrReadTolerated(hdr_states) == FALSE

\* lines 87-91: an empty HDR read fails the export
HdrReadFailed(hdr_states) == IsEmptyMap(hdr_states)

\* lines 68-110: std::nullopt or the encoded snapshot; the caller keeps the buffer
ExportRestoreProfile ==
    /\ pc = "Idle"
    /\ prev' = None
    /\ exported' = << >>
    /\ calls' = << >>
    /\ UNCHANGED << devVars, forceStrictModes, persVars, localVars >>
    /\ LET topology == getCurrentTopology
           device_ids == flattenTopology(topology)
       IN IF \/ ~isApiAccessAvailable
             \/ ~isTopologyValid(topology)
             \/ IsEmptyMap(getCurrentDisplayModes(device_ids))
             \/ HdrReadFailed(getCurrentHdrStates(device_ids))
          THEN /\ result' = Unavailable
               /\ UNCHANGED callerVars
          ELSE /\ result' = Exported
               /\ data' = toJson(ExportedState(topology))
               /\ fromExport' = TRUE

(* ------------------------- exportCurrentSettings ----------------------- *)
\* DisplaySettingsSnapshot {topology, modes, hdr states, primary device}
DisplaySettingsSnapshot(t, m, h, p) ==
    [m_topology |-> t, m_modes |-> m, m_hdr_states |-> h, m_primary_device |-> p]

\* slip: an empty modes read is let through
ModesReadTolerated(modes) == FALSE

\* part_000 lines 81-85: an empty modes read fails the export
ModesReadFailed(modes) == IsEmptyMap(modes)

\* part_000 lines 67-93
ExportCurrentSettings ==
    /\ pc = "Idle"
    /\ prev' = None
    /\ calls' = << >>
    /\ UNCHANGED << devVars, forceStrictModes, persVars, localVars, callerVars >>
    /\ LET topology == getCurrentTopology
           devices_flat == flattenTopology(topology)
           modes == getCurrentDisplayModes(devices_flat)
       IN IF \/ ~isApiAccessAvailable
             \/ ~isTopologyValid(topology)
             \/ ModesReadFailed(modes)
          THEN /\ result' = Unavailable
               /\ exported' = << >>
          ELSE /\ result' = "Snapshot"
               /\ exported' = << DisplaySettingsSnapshot(topology, modes,
                                    getCurrentHdrStates(devices_flat),
                                    getPrimaryDevice(topology)) >>

(* --------------------------- resetPersistence -------------------------- *)
\* PersistentState::persistState(std::nullopt): fails and changes nothing, or clears
persistState(ok) == persisted' = IF ok THEN FALSE ELSE persisted

\* slip: the outcome of persistState is not looked at
ClearNeverFailed(ok) == FALSE

\* line 57: the clear is taken as failed when persistState returned false
ClearFailed(ok) == ~ok

\* slip: the audio context is never released
NeverRelease(isCaptured) == captured

\* lines 62-64: the audio context is released when it reports being captured
ReleaseIfCaptured(isCaptured) == IF isCaptured THEN FALSE ELSE captured

\* slip: the cached state is not looked at, the record is cleared every time
NoCachedStateIgnored == FALSE

\* line 53: PersistentState::getState() holds no record
NoCachedState == ~persisted

\* lines 51-60: nothing persisted is success at once; otherwise the record is cleared
ResetPersistence ==
    /\ pc = "Idle"
    /\ prev' = result
    /\ exported' = << >>
    /\ UNCHANGED << devVars, forceStrictModes, captured, callerVars, current_topology,
                    system_settings_touched >>
    /\ IF NoCachedState
       THEN /\ result' = "true"
            /\ calls' = << Call("getState", 0, FALSE) >>
            /\ UNCHANGED << persisted, pc >>
       ELSE \E ok \in BOOLEAN :
              /\ persistState(ok)
              /\ calls' = << Call("getState", 0, TRUE), Call("persistState", 0, ok) >>
              /\ IF ClearFailed(ok)
                 THEN result' = "false" /\ UNCHANGED pc
                 ELSE result' = None /\ pc' = "Release"

\* lines 62-65: the audio context is released after the clear, then true is returned
ResetRelease ==
    /\ pc = "Release"
    /\ captured' = ReleaseIfCaptured(captured)
    /\ calls' = calls \o << Call("isCaptured", 0, captured) >>
                      \o (IF captured THEN << Call("release", 0, TRUE) >> ELSE << >>)
    /\ result' = "true"
    /\ pc' = "Idle"
    /\ UNCHANGED << devVars, forceStrictModes, persisted, callerVars, current_topology,
                    system_settings_touched, prev, exported >>

(* ----------------------------- environment ----------------------------- *)
\* what a call returned is observed until the next event
Forget == result' = None /\ exported' = << >> /\ prev' = None /\ calls' = << >>

\* the device API starts or stops failing at something
EnvFault ==
    /\ pc = "Idle"
    /\ \E f \in Faults \ {fault} : fault' = f
    /\ Forget
    /\ UNCHANGED << liveTopology, liveModes, liveHdr, livePrimary, forceStrictModes,
                    persVars, callerVars, localVars >>

\* somebody else switches the topology
EnvTopology ==
    /\ pc = "Idle"
    /\ \E t \in ValidTopologies \ {liveTopology} : setTopology(t, TRUE)
    /\ Forget
    /\ UNCHANGED << fault, liveModes, liveHdr, forceStrictModes, persVars, callerVars,
                    localVars >>

\* somebody else changes display modes
EnvModes ==
    /\ pc = "Idle"
    /\ \E m \in MapsOver(Devices, Modes) \ {liveModes} : liveModes' = m
    /\ Forget
    /\ UNCHANGED << fault, liveTopology, liveHdr, livePrimary, forceStrictModes, persVars,
                    callerVars, localVars >>

\* somebody else changes HDR states
EnvHdr ==
    /\ pc = "Idle"
    /\ \E h \in MapsOver(Devices, HdrValues) \ {liveHdr} : liveHdr' = h
    /\ Forget
    /\ UNCHANGED << fault, liveTopology, liveModes, livePrimary, forceStrictModes, persVars,
                    callerVars, localVars >>

\* somebody else makes another active device the primary one
EnvPrimary ==
    /\ pc = "Idle"
    /\ \E p \in Active \ {livePrimary} : livePrimary' = p
    /\ Forget
    /\ UNCHANGED << fault, liveTopology, liveModes, liveHdr, forceStrictModes, persVars,
                    callerVars, localVars >>

\* applying settings elsewhere in SettingsManager persists a record
EnvPersist ==
    /\ pc = "Idle"
    /\ ~persisted
    /\ persisted' = TRUE
    /\ Forget
    /\ UNCHANGED << devVars, forceStrictModes, captured, callerVars, localVars >>

\* applying settings elsewhere in SettingsManager captures the audio context
EnvCapture ==
    /\ pc = "Idle"
    /\ ~captured
    /\ captured' = TRUE
    /\ Forget
    /\ UNCHANGED << devVars, forceStrictModes, persisted, callerVars, localVars >>

(* --------------------------- specifications ---------------------------- *)
\* export and restore against a changing display configuration
Next ==
    \/ RestoreBegin
    \/ RestoreStep1
    \/ RestoreStep2
    \/ RestoreStep3
    \/ RestoreSetModes
    \/ RestoreStep4
    \/ RestoreStep5
    \/ RestoreExit
    \/ ExportRestoreProfile
    \/ EnvFault
    \/ EnvTopology
    \/ EnvModes
    \/ EnvHdr
    \/ EnvPrimary

Spec == Init /\ [][Next]_vars

\* reset and the exports against changing persistence, audio and display state
NextReset ==
    \/ ResetPersistence
    \/ ResetRelease
    \/ ExportCurrentSettings
    \/ EnvPersist
    \/ EnvCapture
    \/ EnvFault
    \/ EnvTopology
    \/ EnvModes
    \/ EnvHdr
    \/ EnvPrimary

\* no hand-built profile is involved: the caller starts with an empty buffer
InitReset == Init /\ data = << >>

SpecReset == InitReset /\ [][NextReset]_vars

\* the two exports side by side against a changing display configuration
NextExport ==
    \/ ExportCurrentSettings
    \/ ExportRestoreProfile
    \/ EnvFault
    \/ EnvTopology
    \/ EnvModes
    \/ EnvHdr
    \/ EnvPrimary

SpecExport == InitReset /\ [][NextExport]_vars

(* ------------------------------- claims ------------------------------- *)
\* restoreFromProfile has returned and nothing has happened since
Returned == pc = "Idle" /\ result \in RevertResult
NoWrites == Len(Writes(calls)) = 0
NoBlank == Len(Blanks(calls)) = 0

\* the maps and the primary device of the profile refer to the devices of its modified
\* topology
WellKeyed ==
    LET ids == flattenTopology(modified.m_topology)
    IN /\ DOMAIN modified.m_original_modes \in {{}, ids}
       /\ DOMAIN modified.m_original_hdr_states \in {{}, ids}
       /\ modified.m_original_primary_device \in ids \cup {NoDevice}

LiveModes == [d \in Active |-> liveModes[d]]
LiveHdr == [d \in Active |-> liveHdr[d]]

\* every device write of the call took effect
WritesTookEffect == \A i \in 1..Len(calls) : calls[i].ok

\* C1 as claimed, taken where reads work and the profile is well keyed: a profile
\* restored right after a restore of it that returned Ok, every device write taking
\* effect, is restored with zero device writes and returns Ok, whatever its two
\* topologies are.
IdempotenceAnyTopologies ==
    (Returned /\ prev = "Ok" /\ fault = "none" /\ WellKeyed /\ WritesTookEffect)
        => (result = "Ok" /\ NoWrites)

\* C1 amended: when initial.topology is the same as modified.topology, the maps and the
\* primary device of the profile refer to the devices of that topology and the device
\* reads work, a restore right after a restore of the same profile that returned Ok
\* issues zero device writes, runs no HDR blanking and returns Ok.
IdempotenceSameTopologies ==
    (/\ Returned /\ prev = "Ok" /\ fault = "none" /\ WellKeyed
     /\ isTopologyTheSame(modified.m_topology, initial.m_topology))
        => (result = "Ok" /\ NoWrites /\ NoBlank)

\* C1 witness: a hand-built profile with every dimension set, its initial topology the
\* modified one in another order, has been restored twice in a row.
IdempotenceReached ==
    /\ Returned /\ prev = "Ok" /\ result = "Ok" /\ fault = "none" /\ WellKeyed /\ ~fromExport
    /\ modified.m_topology = TopoExtended /\ initial.m_topology = TopoExtendedSwapped
    /\ ~IsEmptyMap(modified.m_original_modes)
    /\ ~IsEmptyMap(modified.m_original_hdr_states)
    /\ modified.m_original_primary_device = "d2"
    /\ NoWrites

\* C2: a restore called right after exportRestoreProfile returned a buffer, with that
\* buffer, returns Ok, issues no device write and runs no HDR blanking.
ExportRestoreSymmetry ==
    (Returned /\ prev = Exported) => (result = "Ok" /\ NoWrites /\ NoBlank)

\* C2 witness: an extended configuration with HDR on somewhere was exported and restored
\* at once.
ExportRestoreSymmetryReached ==
    /\ Returned /\ prev = Exported /\ fromExport
    /\ Len(liveTopology) = 2 /\ livePrimary = "d2"
    /\ liveHdr["d1"] # liveHdr["d2"] /\ liveModes["d1"] # liveModes["d2"]

\* C3: when a restore of an exported profile returns Ok, the live topology is the
\* captured one (under isTopologyTheSame) and the live modes, HDR states and primary
\* device are the captured ones.
RestoreRoundTrip ==
    (Returned /\ fromExport /\ result = "Ok")
        => /\ isTopologyTheSame(liveTopology, modified.m_topology)
           /\ LiveModes = modified.m_original_modes
           /\ LiveHdr = modified.m_original_hdr_states
           /\ livePrimary = modified.m_original_primary_device

\* C3 witness: the restore had to write all four dimensions back.
RestoreRoundTripReached ==
    /\ Returned /\ fromExport /\ result = "Ok"
    /\ {calls[i].op : i \in 1..Len(calls)} \cap WriteOps = WriteOps

\* C4: a restore returns ApiTemporarilyUnavailable when the API is not accessible,
\* else TopologyIsInvalid when the current topology is invalid, else
\* PersistenceSaveFailed when the buffer does not decode; in these cases it has called
\* nothing (no set-*, no blankHdrStates) and the strict flag is off as before.
PreconditionsFailFast ==
    Returned =>
        /\ ~isApiAccessAvailable => (result = "ApiTemporarilyUnavailable" /\ calls = << >>)
        /\ (isApiAccessAvailable /\ ~isTopologyValid(getCurrentTopology))
               => (result = "TopologyIsInvalid" /\ calls = << >>)
        /\ (isApiAccessAvailable /\ isTopologyValid(getCurrentTopology) /\ ~fromJsonOk(data))
               => (result = "PersistenceSaveFailed" /\ calls = << >>)
        /\ ~forceStrictModes

\* C4 witness: the current topology is invalid and the buffer does not decode either;
\* the topology is what is reported.
PreconditionsFailFastReached ==
    /\ Returned /\ fault = "topology" /\ ~fromJsonOk(data)
    /\ result = "TopologyIsInvalid"

\* C5 as claimed: a restore of a buffer that does not decode returns
\* PersistenceSaveFailed and issues no device write, in every device state.
DecodeFailureEveryState ==
    (Returned /\ ~fromJsonOk(data)) => (result = "PersistenceSaveFailed" /\ NoWrites)

\* C5 amended: a restore of a buffer that does not decode issues no device write in any
\* device state, and returns PersistenceSaveFailed in every device state in which the
\* API is accessible and the current topology is valid.
DecodeFailure ==
    (Returned /\ ~fromJsonOk(data))
        => /\ NoWrites /\ NoBlank
           /\ (isApiAccessAvailable /\ isTopologyValid(getCurrentTopology))
                  => result = "PersistenceSaveFailed"

\* C5 witness: a buffer with the wrong tag was refused.
DecodeFailureReached ==
    /\ Returned /\ Len(data) = 7 /\ ~fromJsonOk(data)
    /\ result = "PersistenceSaveFailed"

\* the positions of the failed device writes in the call log
FailedWrites == {i \in 1..Len(calls) : calls[i].op \in WriteOps /\ ~calls[i].ok}
FailureOf(op) ==
    CASE op = "setTopology" -> "SwitchingTopologyFailed"
      [] op = "setHdrStates" -> "RevertingHdrStatesFailed"
      [] op = "setDisplayModes" -> "RevertingDisplayModesFailed"
      [] op = "setAsPrimary" -> "RevertingPrimaryDeviceFailed"

\* C6: once a device write of a restore has failed, the restore is on its way out with
\* that step's result, no read or write of a later step follows the failed write, and
\* when the restore has returned the failed write is followed by blankHdrStates alone.
FailureShortCircuit ==
    \A i \in FailedWrites :
        /\ pc \in {"Exit", "Idle"}
        /\ result = FailureOf(calls[i].op)
        /\ \A j \in (i + 1)..Len(calls) : calls[j].op = "blankHdrStates"
        /\ pc = "Idle" => (Len(calls) = i + 1 /\ calls[i + 1].op = "blankHdrStates")

\* C6 witness: step 1 and step 2 wrote, the write of step 3 failed, and the restore
\* returned after blanking.
FailureShortCircuitReached ==
    /\ Returned /\ result = "RevertingDisplayModesFailed"
    /\ Len(calls) >= 4
    /\ calls[1].op = "setTopology" /\ calls[1].ok
    /\ \E i \in FailedWrites : calls[i].op = "setDisplayModes" /\ calls[i].step = 3
    /\ calls[Len(calls)].op = "blankHdrStates"

\* C7: the strict flag is on only between the decision of step 3 to write the modes and
\* the end of step 3; every call a restore makes finds it off, except setDisplayModes,
\* which always finds it on.
StrictModeScoping ==
    /\ forceStrictModes => pc = "SetModes"
    /\ \A i \in 1..Len(calls) : calls[i].strict <=> calls[i].op = "setDisplayModes"

\* C7 witness: setDisplayModes failed under the strict flag, later calls of the restore
\* found the flag off and it is off after the return.
StrictModeScopingReached ==
    /\ Returned /\ result = "RevertingDisplayModesFailed" /\ ~forceStrictModes
    /\ \E i \in FailedWrites : calls[i].op = "setDisplayModes" /\ calls[i].strict
    /\ calls[Len(calls)].op = "blankHdrStates" /\ ~calls[Len(calls)].strict

\* C8: blankHdrStates is not called while a restore runs; when the restore has returned
\* it was called once if a device write was attempted and not at all otherwise, whatever
\* the result.
BlankOnEveryExit ==
    /\ pc \notin {"Idle", "Release"} => NoBlank
    /\ Returned => Len(Blanks(calls)) = (IF NoWrites THEN 0 ELSE 1)

\* C8 witness: the write of step 5 failed after steps 1 to 4 went through, and the
\* HDR blanking ran.
BlankOnEveryExitReached ==
    /\ Returned /\ result = "SwitchingTopologyFailed"
    /\ \E i \in FailedWrites : calls[i].step = 5
    /\ Len(Blanks(calls)) = 1

\* resetPersistence has returned true and nothing has happened since
ResetReturnedTrue == pc = "Idle" /\ result = "true"
RecordExisted == calls[1].op = "getState" /\ calls[1].ok
Released == \E i \in 1..Len(calls) : calls[i].op = "release"

\* C9 as claimed: whenever resetPersistence has returned true, no record is persisted
\* and the audio context is not captured.
ResetContractEveryState ==
    ResetReturnedTrue => (~persisted /\ ~captured)

\* C9 amended: whenever resetPersistence has returned true, no record is persisted; the
\* audio context is not captured if a record was persisted when it was called, and
\* release() was not called if none was.
ResetContract ==
    ResetReturnedTrue =>
        /\ ~persisted
        /\ RecordExisted => ~captured
        /\ ~RecordExisted => ~Released

\* C9 witness: a record was persisted and the audio context captured; the reset cleared
\* the one and released the other.
ResetContractReached ==
    ResetReturnedTrue /\ RecordExisted /\ Released /\ ~persisted /\ ~captured

\* C10: the audio context is only released at a moment when no record is persisted; a
\* reset that returns false leaves the record persisted and the audio context as it was,
\* and has not called release().
ResetOrdering ==
    [][ /\ (captured /\ ~captured') => (~persisted /\ ~persisted')
        /\ (ResetPersistence /\ result' = "false")
               => (persisted' /\ UNCHANGED << persisted, captured >> /\ pc' = "Idle"
                   /\ \A i \in 1..Len(calls') : calls'[i].op # "release") ]_vars

\* C10 witness: persisting the empty record failed while the audio context was captured.
ResetOrderingReached ==
    pc = "Idle" /\ result = "false" /\ persisted /\ captured

\* resetPersistence has returned and nothing has happened since
ResetReturned == pc = "Idle" /\ result \in {"true", "false"}

\* C11: a resetPersistence called right after one that returned true returns true, asks
\* only for the cached state (no persistState, no release); and in every call release()
\* comes right after an isCaptured() that answered true.
ResetIdempotence ==
    /\ (ResetReturned /\ prev = "true")
           => (result = "true" /\ ~persisted /\ Len(calls) = 1 /\ calls[1].op = "getState")
    /\ \A i \in 1..Len(calls) :
           calls[i].op = "release"
               => (i > 1 /\ calls[i - 1].op = "isCaptured" /\ calls[i - 1].ok)

\* C11 witness: the second of two resets in a row has returned true.
ResetIdempotenceReached ==
    ResetReturned /\ prev = "true" /\ result = "true" /\ ~persisted /\ ~captured

\* the API is accessible, the current topology valid and the modes read non-empty
ModesReadable ==
    /\ isApiAccessAvailable
    /\ isTopologyValid(getCurrentTopology)
    /\ ~IsEmptyMap(getCurrentDisplayModes(flattenTopology(getCurrentTopology)))
HdrReadEmpty == IsEmptyMap(getCurrentHdrStates(flattenTopology(getCurrentTopology)))

\* C12: where the API is accessible, the current topology valid and the modes read
\* non-empty, exportCurrentSettings returns a snapshot and exportRestoreProfile returns
\* a buffer exactly when the HDR read is non-empty; with the HDR read empty the snapshot
\* carries an empty HDR map and the caller is left with the buffer it had.
AsymmetricHdr ==
    [][ /\ (ExportCurrentSettings /\ ModesReadable)
               => /\ result' = "Snapshot"
                  /\ Len(exported') = 1
                  /\ IsEmptyMap(exported'[1].m_hdr_states) <=> HdrReadEmpty
        /\ (ExportRestoreProfile /\ ModesReadable)
               => /\ result' = (IF HdrReadEmpty THEN Unavailable ELSE Exported)
                  /\ HdrReadEmpty => UNCHANGED << data, fromExport >>
                  /\ ~HdrReadEmpty => (fromExport' /\ fromJsonOk(data')) ]_vars

\* C12 witness: with the HDR read failing, exportCurrentSettings has returned a snapshot
\* without HDR states, for an extended topology.
AsymmetricHdrReached ==
    /\ pc = "Idle" /\ result = "Snapshot" /\ fault = "hdr"
    /\ IsEmptyMap(exported[1].m_hdr_states)
    /\ DOMAIN exported[1].m_modes = Devices

\* C13: exportCurrentSettings returns a snapshot exactly when the API is accessible, the
\* current topology valid and the modes read non-empty; the snapshot holds the topology,
\* modes, HDR states and primary device the device reports; otherwise nothing is
\* returned; in every case the device, the strict flag, the persisted record and the
\* audio context are left alone and no collaborator is called to change anything.
ExportAllOrNothing ==
    [][ ExportCurrentSettings
            => /\ result' = (IF ModesReadable THEN "Snapshot" ELSE Unavailable)
               /\ exported' =
                     (IF ModesReadable
                      THEN << [m_topology |-> getCurrentTopology,
                               m_modes |-> getCurrentDisplayModes(
                                               flattenTopology(getCurrentTopology)),
                               m_hdr_states |-> getCurrentHdrStates(
                                                    flattenTopology(getCurrentTopology)),
                               m_primary_device |-> getPrimaryDevice(getCurrentTopology)] >>
                      ELSE << >>)
               /\ calls' = << >>
               /\ UNCHANGED << devVars, forceStrictModes, persVars >> ]_vars

\* C13 witness: a snapshot of an extended configuration was returned while a record was
\* persisted and the audio context captured.
ExportAllOrNothingReached ==
    /\ pc = "Idle" /\ result = "Snapshot" /\ persisted /\ captured
    /\ Len(exported) = 1
    /\ Len(exported[1].m_topology) = 2
    /\ exported[1].m_primary_device = "d2"
    /\ DOMAIN exported[1].m_hdr_states = Devices

\* the calls a restore has made in one of its steps
CallsOfStep(n) == {i \in 1..Len(calls) : calls[i].step = n}
\* steps 1 to 4 went through and the initial topology passed its validity check
Step5Decided ==
    /\ pc \in {"Exit", "Idle"}
    /\ \/ result = "Ok"
       \/ \E i \in FailedWrites : calls[i].step = 5

Issued(op) == Len(calls') > Len(calls) /\ calls'[Len(calls')].op = op
\* what steps 1 to 4 do, each when the restore reaches it; step 1 writes when step1_writes
ConditionalWritesOfSteps(step1_writes) ==
    /\ (RestoreBegin /\ pc' = "Step1") => current_topology' = liveTopology
    /\ RestoreStep1
           => /\ Issued("setTopology") <=> step1_writes
              /\ ~Issued("setTopology")
                     => UNCHANGED << liveTopology, livePrimary, system_settings_touched, calls >>
    /\ RestoreStep2
           => /\ Issued("setHdrStates")
                     <=> /\ ~IsEmptyMap(modified.m_original_hdr_states)
                         /\ ~SameMap(getCurrentHdrStates(flattenTopology(modified.m_topology)),
                                     modified.m_original_hdr_states)
              /\ ~Issued("setHdrStates") => UNCHANGED << liveHdr, system_settings_touched >>
    /\ RestoreStep3
           => /\ pc' = "SetModes"
                     <=> /\ ~IsEmptyMap(modified.m_original_modes)
                         /\ ~SameMap(getCurrentDisplayModes(flattenTopology(modified.m_topology)),
                                     modified.m_original_modes)
              /\ pc' # "SetModes" => (pc' = "Step4" /\ UNCHANGED << liveModes, system_settings_touched >>)
              /\ ~Issued("setDisplayModes")
    /\ RestoreSetModes => Issued("setDisplayModes")
    /\ RestoreStep4
           => /\ Issued("setAsPrimary")
                     <=> /\ modified.m_original_primary_device # NoDevice
                         /\ getPrimaryDevice(modified.m_topology)
                                # modified.m_original_primary_device
              /\ ~Issued("setAsPrimary") => UNCHANGED << livePrimary, system_settings_touched >>

\* C15 as stated: step 1 issues setTopology(modified.topology) exactly when it differs
\* from the topology read at entry. Refuted by a profile whose modified topology is
\* invalid: it differs from the valid topology read at entry and is not written.
ConditionalWritesAnyTopology ==
    [][ConditionalWritesOfSteps(~isTopologyTheSame(current_topology, modified.m_topology))]_vars

\* C15: each of the steps 1 to 4 that the restore reaches issues its write exactly when
\* its target is set and differs from what is read (step 1: the modified topology is
\* valid and not the one read at entry; steps 2 to 4: the map or id is non-empty and
\* differs from the value read over the modified topology); a step that issues no write
\* leaves its dimension of the device and the touched flag as they were.
ConditionalWrites ==
    [][ConditionalWritesOfSteps(/\ isTopologyValid(modified.m_topology)
                                /\ ~isTopologyTheSame(current_topology, modified.m_topology))]_vars

\* C15 witness: one restore that wrote the HDR states, which differed, and read but did
\* not write the display modes, which were the live ones
ConditionalWritesReached ==
    /\ Returned /\ result = "Ok"
    /\ \E i \in CallsOfStep(2) : calls[i].op = "setHdrStates" /\ calls[i].ok
    /\ \E i \in CallsOfStep(3) : calls[i].op = "getCurrentDisplayModes"
    /\ \A i \in CallsOfStep(3) : calls[i].op # "setDisplayModes"
    /\ CallsOfStep(1) = {}
    /\ SameMap(LiveModes, modified.m_original_modes)

\* the device writes of the call, as positions in the call log
WriteCalls == {i \in 1..Len(calls) : calls[i].op \in WriteOps}
\* the write each step issues
WriteOfStep ==
    [n \in 1..5 |-> CASE n = 1 -> "setTopology"
                      [] n = 2 -> "setHdrStates"
                      [] n = 3 -> "setDisplayModes"
                      [] n = 4 -> "setAsPrimary"
                      [] n = 5 -> "setTopology"]

\* C16: at every point of every restore, the device writes issued so far are in the order
\* of the steps 1 to 5, each step's own write and at most one per step, and a failed
\* write is the last one; the call returns Ok exactly when its preconditions held, both
\* profile topologies are valid and every write issued succeeded.
WriteOrdering ==
    /\ \A i \in WriteCalls :
           /\ calls[i].step \in 1..5
           /\ calls[i].op = WriteOfStep[calls[i].step]
    /\ \A i, j \in WriteCalls : i < j => calls[i].step < calls[j].step
    /\ \A i, j \in WriteCalls : ~calls[i].ok => j <= i
    /\ Returned
           => (result = "Ok"
                  <=> /\ PreconditionFailure = None
                      /\ isTopologyValid(modified.m_topology)
                      /\ isTopologyValid(initial.m_topology)
                      /\ \A i \in WriteCalls : calls[i].ok)

\* C16 witness: a restore that returned Ok after writing in step 1, in step 5 and in at
\* least two of the steps between
WriteOrderingReached ==
    /\ Returned /\ result = "Ok"
    /\ Cardinality(WriteCalls) >= 4
    /\ \E i \in WriteCalls : calls[i].step = 1
    /\ \E i \in WriteCalls : calls[i].step = 5

\* the restore has returned, its preconditions held, and of the profile's topologies
\* only the initial one is invalid
InitialTopologyInvalid ==
    /\ Returned /\ PreconditionFailure = None
    /\ isTopologyValid(modified.m_topology)
    /\ ~isTopologyValid(initial.m_topology)

\* C17 as stated, granting the preconditions: a profile whose modified topology is valid
\* and whose initial topology is invalid makes the restore return TopologyIsInvalid.
\* Refuted by a write of steps 1 to 4 that fails: the call returns that step's failure
\* and never looks at the initial topology.
InvalidInitialAlwaysReported == InitialTopologyInvalid => result = "TopologyIsInvalid"

\* C17: in a restore whose preconditions hold, an invalid modified topology gives
\* TopologyIsInvalid with no device call at all; a valid modified and invalid initial
\* topology gives TopologyIsInvalid exactly when no write of steps 1 to 4 failed, and
\* then steps 2 to 4 have read what their targets asked for, step 5 has written nothing
\* and the HDR blank has run exactly when a write was issued; otherwise the call returns
\* the failure of the write that failed.
InvalidProfileTopologies ==
    /\ (Returned /\ PreconditionFailure = None /\ ~isTopologyValid(modified.m_topology))
           => (result = "TopologyIsInvalid" /\ calls = << >>)
    /\ InitialTopologyInvalid
           => /\ result = "TopologyIsInvalid" <=> \A i \in WriteCalls : calls[i].ok
              /\ result # "TopologyIsInvalid"
                     => \E i \in WriteCalls : ~calls[i].ok /\ result = FailureOf(calls[i].op)
              /\ result = "TopologyIsInvalid"
                     => /\ ~IsEmptyMap(modified.m_original_hdr_states) => CallsOfStep(2) # {}
                        /\ ~IsEmptyMap(modified.m_original_modes) => CallsOfStep(3) # {}
                        /\ modified.m_original_primary_device # NoDevice => CallsOfStep(4) # {}
                        /\ CallsOfStep(5) = {}
                        /\ Len(Blanks(calls)) = (IF WriteCalls = {} THEN 0 ELSE 1)

\* C17 witness: the initial topology was found invalid after steps 1 to 4 had written
\* to the device, and the HDR blank ran
InvalidProfileTopologiesReached ==
    /\ InitialTopologyInvalid /\ result = "TopologyIsInvalid"
    /\ Cardinality(WriteCalls) >= 2
    /\ Len(Blanks(calls)) = 1

\* the topology switches of the call
TopologyWrites == {i \in WriteCalls : calls[i].op = "setTopology"}
\* what holds of a profile exportRestoreProfile has produced, and of a restore from it
ExportedProfileShape ==
    /\ fromExport
           => /\ fromJsonOk(data)
              /\ initial.m_topology = modified.m_topology
              /\ isTopologyValid(modified.m_topology)
              /\ ~IsEmptyMap(modified.m_original_modes)
              /\ ~IsEmptyMap(modified.m_original_hdr_states)
              /\ CallsOfStep(5) = {}
              /\ Cardinality(TopologyWrites) <= 1
    /\ (pc = "Idle" /\ result = Exported)
           => /\ fromExport
              /\ modified.m_topology = getCurrentTopology
              /\ initial.m_primary_devices
                     = {id \in flattenTopology(getCurrentTopology) : isPrimary(id)}
              /\ calls = << >>

\* C18: a profile produced by exportRestoreProfile carries the topology read in that
\* call as both its initial and its modified topology, non-empty modes and HDR states,
\* and as primary candidates the flattened devices reported as primary; a restore from
\* it never writes in step 5 and switches the topology at most once; the export itself
\* writes nothing to the device.
ExportedProfile ==
    /\ []ExportedProfileShape
    /\ [][ExportRestoreProfile
              => (calls' = << >> /\ UNCHANGED << devVars, forceStrictModes >>)]_vars

\* C18 witness: a profile exported on the extended topology was restored after the
\* display had gone to another topology; the restore switched once and returned Ok
ExportedProfileReached ==
    /\ Returned /\ result = "Ok" /\ fromExport
    /\ initial.m_topology = TopoExtended
    /\ Cardinality(TopologyWrites) = 1
    /\ \A i \in TopologyWrites : calls[i].step = 1 /\ calls[i].ok

\* C19: when a restore has returned Ok, the live topology is the profile's initial
\* topology under isTopologyTheSame, whether or not the profile's two topologies are the
\* same (every successful setTopology of the model takes effect, and nothing else acts on
\* the display while a restore runs).
FinalTopology ==
    (Returned /\ result = "Ok") => isTopologyTheSame(liveTopology, initial.m_topology)

\* C19 witness: the profile's two topologies differ, the restore switched to the
\* modified one in step 1 and to the initial one in step 5, and the display is left on
\* the initial one
FinalTopologyReached ==
    /\ Returned /\ result = "Ok"
    /\ ~isTopologyTheSame(modified.m_topology, initial.m_topology)
    /\ \E i \in TopologyWrites : calls[i].step = 1 /\ calls[i].ok
    /\ \E i \in TopologyWrites : calls[i].step = 5 /\ calls[i].ok
    /\ liveTopology = initial.m_topology

\* C20: blankHdrStates, when a restore calls it, is the last call of that restore, made
\* on the way out after every set-* call, the failed one included, and it finds the
\* strict flag off, which stays off.
CleanupOrdering ==
    \A i \in 1..Len(calls) :
        calls[i].op = "blankHdrStates"
            => /\ i = Len(calls)
               /\ pc = "Idle"
               /\ ~calls[i].strict
               /\ ~forceStrictModes
               /\ \A j \in WriteCalls : j < i

\* C20 witness: the restore switched the topology, then setDisplayModes failed under the
\* strict flag; blankHdrStates came right after the failed write and found the flag off
CleanupOrderingReached ==
    /\ Returned /\ result = "RevertingDisplayModesFailed"
    /\ Len(calls) >= 4
    /\ calls[1].op = "setTopology" /\ calls[1].ok
    /\ calls[Len(calls) - 1].op = "setDisplayModes"
    /\ ~calls[Len(calls) - 1].ok /\ calls[Len(calls) - 1].strict
    /\ calls[Len(calls)].op = "blankHdrStates" /\ ~calls[Len(calls)].strict

====
